---- MODULE Spec2Model ----
(***************************************************************************)
(* Bond Trading API (api/app.py): the Flask request pipeline over the      *)
(* BondTrading contract.  One request is two steps: the before_request     *)
(* hook ensure_connection, then the handler of the route.  The blockchain  *)
(* client, the contract binding and the request payload are inputs; every  *)
(* call the code makes on them is appended to the trace `calls`.           *)
(***************************************************************************)
EXTENDS Integers, Sequences, FiniteSets, TLC

VARIABLES CONTRACT_ADDRESS, w3, contract, pc, req, calls, receipt, resp,
          returned

vars == <<CONTRACT_ADDRESS, w3, contract, pc, req, calls, receipt, resp,
          returned>>

(***************************************************************************)
(* Bounds of the model.                                                    *)
(***************************************************************************)
\* longest list of log entries in a receipt
MaxLogs == 2
\* largest bond id carried by a BondIssued log entry or a path parameter
MaxBondId == 2

(***************************************************************************)
(* JSON / Python values.  t is the type tag, n the integer payload, s the  *)
(* characters of a string.                                                 *)
(***************************************************************************)
Value(t, n, s) == [t |-> t, n |-> n, s |-> s]
\* Python None: what data.get(key) returns for a key that is not there
PyNone == Value("none", 0, <<>>)
IntV(n) == Value("int", n, <<>>)
StrV(s) == Value("str", 0, s)

\* truth value of a Python object, as `all([...])` and `not x` use it
Truthy(v) ==
    CASE v.t = "none" -> FALSE
      [] v.t = "int"  -> v.n # 0
      [] v.t = "str"  -> v.s # <<>>

Digits == <<"0", "1", "2", "3", "4", "5", "6", "7", "8", "9">>

IsDigit(c) == \E i \in 1..Len(Digits) : Digits[i] = c

DigitVal(c) == (CHOOSE i \in 1..Len(Digits) : Digits[i] = c) - 1

RECURSIVE ParseDecimal(_, _)
ParseDecimal(s, acc) ==
    IF s = <<>> THEN acc
    ELSE ParseDecimal(Tail(s), 10 * acc + DigitVal(Head(s)))

\* int(v) returns: v is an int already, or a string of decimal digits
IntConvertible(v) ==
    \/ v.t = "int"
    \/ /\ v.t = "str"
       /\ v.s # <<>>
       /\ \A i \in 1..Len(v.s) : IsDigit(v.s[i])

\* the value of int(v) when it returns
PyInt(v) == IF v.t = "int" THEN v.n ELSE ParseDecimal(v.s, 0)

(***************************************************************************)
(* Addresses.  An address is "0x" followed by hex characters (two of them *)
(* here, forty on the chain); the checksum form fixes the case of every   *)
(* letter.                                                                 *)
(***************************************************************************)
HexLower == <<"a", "b", "c", "d", "e", "f">>
HexUpper == <<"A", "B", "C", "D", "E", "F">>

IsHexChar(c) ==
    \/ IsDigit(c)
    \/ \E i \in 1..6 : HexLower[i] = c \/ HexUpper[i] = c

LowerOf(c) == IF \E i \in 1..6 : HexUpper[i] = c
              THEN HexLower[CHOOSE i \in 1..6 : HexUpper[i] = c] ELSE c

UpperOf(c) == IF \E i \in 1..6 : HexLower[i] = c
              THEN HexUpper[CHOOSE i \in 1..6 : HexLower[i] = c] ELSE c

IsAddress(v) ==
    /\ v.t = "str"
    /\ Len(v.s) = 3
    /\ v.s[1] = "0x"
    /\ \A i \in 2..Len(v.s) : IsHexChar(v.s[i])

\* w3.to_checksum_address(v) when it returns: the letter at an even place
\* is upper case, the letter at an odd place lower case
to_checksum_address(v) ==
    StrV([i \in 1..Len(v.s) |->
            IF i = 1 THEN v.s[1]
            ELSE IF i % 2 = 0 THEN UpperOf(v.s[i]) ELSE LowerOf(v.s[i])])

\* w3.to_checksum_address(v) returns only for an address
ChecksumRaises(v) == ~IsAddress(v)

(***************************************************************************)
(* Calls on the collaborators, responses, receipts.                        *)
(***************************************************************************)
None == 0

\* one call: the operation, the contract function or endpoint it is made
\* on, its positional arguments, and how it ended ("ok", "True", "False" or
\* the message of the exception it raised)
Call(op, fn, args, out) == [op |-> op, fn |-> fn, args |-> args, out |-> out]

\* messages of the exceptions the client library raises
Msgs == {"revert", "timeout"}

ConnectionError == "Failed to connect to blockchain or contract"
MissingError == "Missing required parameters"
TxFailedError == "Smart contract transaction failed"
RevertedError == "Transaction failed on blockchain"

\* jsonify({"error": error [+ ": " + detail]}), status
ErrorResponse(status, error, detail) ==
    [status |-> status, kind |-> "json", error |-> error, detail |-> detail,
     message |-> "", tx_hash |-> "", vals |-> <<>>]

\* jsonify({"message": ..., "tx_hash": ..., fields}), status
OkResponse(status, message, tx_hash, vals) ==
    [status |-> status, kind |-> "json", error |-> "", detail |-> "",
     message |-> message, tx_hash |-> tx_hash, vals |-> vals]

NoResponse ==
    [status |-> 0, kind |-> "none", error |-> "", detail |-> "",
     message |-> "", tx_hash |-> "", vals |-> <<>>]

\* what Flask answers when a before_request function raises
UnhandledResponse ==
    [status |-> 500, kind |-> "html", error |-> "Internal Server Error",
     detail |-> "", message |-> "", tx_hash |-> "", vals |-> <<>>]

NoReceipt == [status |-> -1, logs |-> <<>>]

\* a log entry: the event it encodes and, for BondIssued, its bondId
LogEntries ==
    {[event |-> "Other", bondId |-> 0]}
        \cup {[event |-> "BondIssued", bondId |-> i] : i \in 1..MaxBondId}

LogSeqs == UNION {[1..k -> LogEntries] : k \in 0..MaxLogs}

Receipts == [status : {0, 1}, logs : LogSeqs]

\* what a handler produced: the response, the calls it made, the receipt
Result(r, c, rc) == [resp |-> r, calls |-> c, receipt |-> rc]

(***************************************************************************)
(* The connection: ensure_connection and connect_to_blockchain.            *)
(* w3 is None or the identity of the cached client; contract is None or    *)
(* the identity of the client its binding was created from.                *)
(***************************************************************************)
\* how a connectivity probe ends: is_connected() answers, or raises
ConnOut == {"True", "False", "error"}

\* the outcomes of the attempts on the primary and the fallback endpoint
ConnectOracles == [primary : ConnOut, fallback : ConnOut]

\* the identity of a client object just created: it differs from the
\* identity the cached binding keeps (that of the client it was created
\* from); the identity of a client nothing refers to any more is free
Fresh == IF contract = 1 THEN 2 ELSE 1

\* connect_to_blockchain(): the client it returns (None when it gives up)
\* and the attempts it made
connect_to_blockchain(c) ==
    LET first == Call("connect", "WEB3_PROVIDER", <<>>, c.primary)
        second == Call("connect", "DEFAULT_WEB3_PROVIDER", <<>>, c.fallback)
    IN  IF c.primary = "True" THEN [w3 |-> Fresh, calls |-> <<first>>]
        ELSE IF c.primary = "error" THEN [w3 |-> None, calls |-> <<first>>]
        ELSE IF c.fallback = "True" THEN [w3 |-> Fresh, calls |-> <<first, second>>]
        ELSE [w3 |-> None, calls |-> <<first, second>>]

\* a hook that creates a binding on every run, for a client it keeps too
ensure_connected_rebinding(p, c, b) ==
    LET probe == Call("is_connected", "w3", <<>>, p)
        conn == connect_to_blockchain(c)
        \* `if w3 is None or not w3.is_connected(): w3 = connect_to_blockchain()`
        s1 == IF w3 = None
              THEN [w3 |-> conn.w3, calls |-> conn.calls, raised |-> FALSE]
              ELSE IF p = "error"
              THEN [w3 |-> w3, calls |-> <<probe>>, raised |-> TRUE]
              ELSE IF p = "False"
              THEN [w3 |-> conn.w3, calls |-> <<probe>> \o conn.calls,
                    raised |-> FALSE]
              ELSE [w3 |-> w3, calls |-> <<probe>>, raised |-> FALSE]
        bind == Call("contract", "w3.eth", <<>>, b)
    IN  \* `if w3 is not None: contract = w3.eth.contract(...)`
        IF s1.raised
        THEN [w3 |-> s1.w3, contract |-> contract, calls |-> s1.calls,
              raised |-> TRUE]
        ELSE IF s1.w3 # None
        THEN [w3 |-> s1.w3,
              contract |-> IF b = "ok" THEN s1.w3 ELSE contract,
              calls |-> Append(s1.calls, bind),
              raised |-> b # "ok"]
        ELSE [w3 |-> s1.w3, contract |-> contract, calls |-> s1.calls,
              raised |-> FALSE]

\* ensure_connection with a contract address configured: p is what the
\* cached client's is_connected() does, c what the endpoints do, b what
\* w3.eth.contract does
ensure_connected(p, c, b) ==
    LET probe == Call("is_connected", "w3", <<>>, p)
        conn == connect_to_blockchain(c)
        \* `if w3 is None or not w3.is_connected(): w3 = connect_to_blockchain()`
        s1 == IF w3 = None
              THEN [w3 |-> conn.w3, calls |-> conn.calls, raised |-> FALSE]
              ELSE IF p = "error"
              THEN [w3 |-> w3, calls |-> <<probe>>, raised |-> TRUE]
              ELSE IF p = "False"
              THEN [w3 |-> conn.w3, calls |-> <<probe>> \o conn.calls,
                    raised |-> FALSE]
              ELSE [w3 |-> w3, calls |-> <<probe>>, raised |-> FALSE]
        bind == Call("contract", "w3.eth", <<>>, b)
    IN  \* `if contract is None and w3 is not None: contract = w3.eth.contract(...)`
        IF s1.raised
        THEN [w3 |-> s1.w3, contract |-> contract, calls |-> s1.calls,
              raised |-> TRUE]
        ELSE IF contract = None /\ s1.w3 # None
        THEN [w3 |-> s1.w3,
              contract |-> IF b = "ok" THEN s1.w3 ELSE contract,
              calls |-> Append(s1.calls, bind),
              raised |-> b # "ok"]
        ELSE [w3 |-> s1.w3, contract |-> contract, calls |-> s1.calls,
              raised |-> FALSE]

\* a hook that connects whether or not a contract address is configured
ensure_connection_unguarded(p, c, b) == ensure_connected(p, c, b)

\* the body of ensure_connection: `if CONTRACT_ADDRESS:`
ensure_connection_run(p, c, b) ==
    IF CONTRACT_ADDRESS = ""
    THEN [w3 |-> w3, contract |-> contract, calls |-> <<>>, raised |-> FALSE]
    ELSE ensure_connected(p, c, b)

\* what ensure_connection can do, over all its collaborators can do
EnsureOutcomes ==
    {ensure_connection_run(p, c, b) :
        p \in ConnOut, c \in ConnectOracles, b \in {"ok", "error"}}

(***************************************************************************)
(* Requests.                                                               *)
(***************************************************************************)
Fields == {"name", "issuer", "faceValue", "maturityDate", "interestRate",
           "supply", "bondId", "amount", "buyerAddress"}

\* a JSON object with none of the fields
EmptyObject == [f \in Fields |-> PyNone]

\* json: "object" when request.get_json() returns a dict, "other" when it
\* returns something else (a list, null); data: the dict; bond_id and
\* holder_address: the path parameters
Request(endpoint, json, data, bond_id, holder_address) ==
    [endpoint |-> endpoint, json |-> json, data |-> data,
     bond_id |-> bond_id, holder_address |-> holder_address]

NoRequest == Request("", "none", EmptyObject, 0, PyNone)

\* os.getenv('AUTH_TOKEN', 'default-token')
AUTH_TOKEN == "default-token"

\* the bearer token of a request: none, one that is not the configured
\* one, the configured one
Tokens == {"", "wrong", AUTH_TOKEN}

\* request r carrying bearer token t in its Authorization header; req
\* keeps the route, the body and the path parameters of the request
Bearing(r, t) ==
    [endpoint |-> r.endpoint, json |-> r.json, data |-> r.data,
     bond_id |-> r.bond_id, holder_address |-> r.holder_address,
     token |-> t]


\* values a numeric field takes: absent, 0, a positive integer, a string of
\* digits, a string that is no number
NumVals == {PyNone, IntV(0), IntV(5), StrV(<<"1", "2">>), StrV(<<"x">>)}

\* values of the fields of /bond/issue
NameVals == {PyNone, StrV(<<>>), StrV(<<"B">>)}
IssuerVals == {PyNone, StrV(<<"I">>)}
FaceValueVals == {PyNone, IntV(0), StrV(<<"1", "2">>), StrV(<<"x">>)}
MaturityDateVals == {PyNone, IntV(0), IntV(7)}
InterestRateVals == {PyNone, IntV(0), StrV(<<"3">>)}
SupplyVals == {PyNone, IntV(0), IntV(4)}

\* values of amount
AmountVals == {PyNone, IntV(0), StrV(<<"1", "0">>), StrV(<<"x">>)}

\* values an address takes: absent, empty, lower case, checksum form,
\* upper case, no address, no string
AddressVals == {PyNone, StrV(<<>>), StrV(<<"0x", "a", "b">>),
                StrV(<<"0x", "A", "b">>), StrV(<<"0x", "A", "B">>),
                StrV(<<"z">>), IntV(5)}

IssueBodies ==
    {[EmptyObject EXCEPT !["name"] = n, !["issuer"] = i, !["faceValue"] = f,
                         !["maturityDate"] = m, !["interestRate"] = r,
                         !["supply"] = s] :
        n \in NameVals, i \in IssuerVals, f \in FaceValueVals,
        m \in MaturityDateVals, r \in InterestRateVals, s \in SupplyVals}

AmountBodies ==
    {[EmptyObject EXCEPT !["bondId"] = b, !["amount"] = a] :
        b \in NumVals, a \in AmountVals}

SellBodies ==
    {[d EXCEPT !["buyerAddress"] = x] : d \in AmountBodies, x \in AddressVals}

PathBondIds == 0..MaxBondId

PathAddresses == AddressVals \ {PyNone, StrV(<<>>), IntV(5)}

(***************************************************************************)
(* The transaction sequence of the four mutating handlers.                 *)
(***************************************************************************)
\* what the collaborators do during one transaction: each step ends "ok"
\* or raises with a message; receipt is what the receipt wait returns
TxOracle(b, e, t, w, r) ==
    [build |-> b, estimate |-> e, transact |-> t, wait |-> w, receipt |-> r]

\* the receipts a transaction of fn can have: the BondIssued event is
\* emitted by issueBond alone
ReceiptsOf(fn) ==
    IF fn = "issueBond" THEN Receipts
    ELSE {r \in Receipts : \A i \in 1..Len(r.logs) : r.logs[i].event = "Other"}

\* one oracle per way the sequence can go: the first step that raises, or
\* the receipt
TxOracles(fn) ==
    {TxOracle(m, "ok", "ok", "ok", NoReceipt) : m \in Msgs}
        \cup {TxOracle("ok", m, "ok", "ok", NoReceipt) : m \in Msgs}
        \cup {TxOracle("ok", "ok", m, "ok", NoReceipt) : m \in Msgs}
        \cup {TxOracle("ok", "ok", "ok", m, NoReceipt) : m \in Msgs}
        \cup {TxOracle("ok", "ok", "ok", "ok", r) : r \in ReceiptsOf(fn)}

\* w3.eth.default_account, which no code of the application assigns
default_account == Value("empty", 0, <<>>)

\* os.environ.get('OWNER_ADDRESS', ''), set to an account address in the
\* environment; app.py does not import it
OWNER_ADDRESS == StrV(<<"0x", "A", "b">>)

\* tx_hash.hex(): the hash as a hex string
TxHashHex == "deadbeef"

Unknown == StrV(<<"Unknown">>)

\* the loop without its break: the last entry that decodes wins
RECURSIVE ScanLogsNoBreak(_, _)
ScanLogsNoBreak(logs, i) ==
    IF i > Len(logs) THEN [bond_id |-> StrV(<<"Unknown">>), calls |-> <<>>]
    ELSE LET rest == ScanLogsNoBreak(logs, i + 1)
             ok == logs[i].event = "BondIssued"
         IN  [bond_id |-> IF ok /\ rest.bond_id = StrV(<<"Unknown">>)
                          THEN IntV(logs[i].bondId) ELSE rest.bond_id,
              calls |-> <<Call("process_log", "BondIssued", <<IntV(i)>>,
                               IF ok THEN "ok" ELSE "error")>> \o rest.calls]

\* the loop over tx_receipt.logs from entry i on: the bond id it ends with
\* and the process_log calls it makes
RECURSIVE ScanLogs(_, _)
ScanLogs(logs, i) ==
    IF i > Len(logs) THEN [bond_id |-> Unknown, calls |-> <<>>]
    ELSE IF logs[i].event = "BondIssued"
    THEN [bond_id |-> IntV(logs[i].bondId),
          calls |-> <<Call("process_log", "BondIssued", <<IntV(i)>>, "ok")>>]
    ELSE LET rest == ScanLogs(logs, i + 1)
         IN  [bond_id |-> rest.bond_id,
              calls |-> <<Call("process_log", "BondIssued", <<IntV(i)>>,
                               "error")>> \o rest.calls]

SuccessMessage(fn) ==
    CASE fn = "issueBond"    -> "Bond issued successfully"
      [] fn = "purchaseBond" -> "Bond purchased successfully"
      [] fn = "sellBond"     -> "Bond sold successfully"
      [] fn = "redeemBond"   -> "Bond redeemed successfully"

\* a success response with status 200 on every endpoint, /bond/issue too
SuccessResultAll200(fn, args, c, rc) ==
    Result(OkResponse(200, SuccessMessage(fn), TxHashHex, args), c, rc)

\* the response to a transaction whose receipt has status 1
SuccessResult(fn, args, c, rc) ==
    IF fn = "issueBond"
    THEN LET scan == ScanLogs(rc.logs, 1)
         IN  Result(OkResponse(201, SuccessMessage(fn), TxHashHex,
                               <<scan.bond_id>>),
                    c \o scan.calls, rc)
    ELSE Result(OkResponse(200, SuccessMessage(fn), TxHashHex, args), c, rc)

\* the sequence that submits although the estimation raised
TransactionNoAbort(fn, args, o) ==
    LET c1 == <<Call("function", fn, args, o.build)>>
        c2 == Append(c1, Call("estimate_gas", fn, <<default_account>>,
                              o.estimate))
        c3 == Append(c2, Call("transact", fn, <<default_account>>,
                              o.transact))
        c4 == Append(c3, Call("wait_for_transaction_receipt", fn, <<>>,
                              o.wait))
    IN  IF o.build # "ok"
        THEN Result(ErrorResponse(500, "", o.build), c1, NoReceipt)
        ELSE IF o.transact # "ok"
        THEN Result(ErrorResponse(500, TxFailedError, o.transact), c3,
                    NoReceipt)
        ELSE IF o.estimate # "ok"
        THEN Result(ErrorResponse(500, TxFailedError, o.estimate), c4,
                    NoReceipt)
        ELSE IF o.wait # "ok"
        THEN Result(ErrorResponse(500, TxFailedError, o.wait), c4, NoReceipt)
        ELSE IF o.receipt.status # 1
        THEN Result(ErrorResponse(500, RevertedError, ""), c4, o.receipt)
        ELSE SuccessResult(fn, args, c4, o.receipt)

\* the sequence with submission before estimation
TransactionSubmitFirst(fn, args, o) ==
    LET c1 == <<Call("function", fn, args, o.build)>>
        c2 == Append(c1, Call("transact", fn, <<default_account>>, o.transact))
        c3 == Append(c2, Call("estimate_gas", fn, <<default_account>>,
                              o.estimate))
        c4 == Append(c3, Call("wait_for_transaction_receipt", fn, <<>>,
                              o.wait))
    IN  IF o.build # "ok"
        THEN Result(ErrorResponse(500, "", o.build), c1, NoReceipt)
        ELSE IF o.transact # "ok"
        THEN Result(ErrorResponse(500, TxFailedError, o.transact), c2,
                    NoReceipt)
        ELSE IF o.estimate # "ok"
        THEN Result(ErrorResponse(500, TxFailedError, o.estimate), c3,
                    NoReceipt)
        ELSE IF o.wait # "ok"
        THEN Result(ErrorResponse(500, TxFailedError, o.wait), c4, NoReceipt)
        ELSE IF o.receipt.status # 1
        THEN Result(ErrorResponse(500, RevertedError, ""), c4, o.receipt)
        ELSE SuccessResult(fn, args, c4, o.receipt)

\* the sequence without the check of the receipt's status
TransactionNoStatusCheck(fn, args, o) ==
    LET c1 == <<Call("function", fn, args, o.build)>>
        c2 == Append(c1, Call("estimate_gas", fn, <<default_account>>,
                              o.estimate))
        c3 == Append(c2, Call("transact", fn, <<default_account>>,
                              o.transact))
        c4 == Append(c3, Call("wait_for_transaction_receipt", fn, <<>>,
                              o.wait))
    IN  IF o.build # "ok"
        THEN Result(ErrorResponse(500, "", o.build), c1, NoReceipt)
        ELSE IF o.estimate # "ok"
        THEN Result(ErrorResponse(500, TxFailedError, o.estimate), c2,
                    NoReceipt)
        ELSE IF o.transact # "ok"
        THEN Result(ErrorResponse(500, TxFailedError, o.transact), c3,
                    NoReceipt)
        ELSE IF o.wait # "ok"
        THEN Result(ErrorResponse(500, TxFailedError, o.wait), c4, NoReceipt)
        ELSE SuccessResult(fn, args, c4, o.receipt)

\* contract.functions.<fn>(*args), estimate_gas, transact,
\* wait_for_transaction_receipt, and the response
Transaction(fn, args, o) ==
    LET c1 == <<Call("function", fn, args, o.build)>>
        c2 == Append(c1, Call("estimate_gas", fn, <<default_account>>,
                              o.estimate))
        c3 == Append(c2, Call("transact", fn, <<default_account>>,
                              o.transact))
        c4 == Append(c3, Call("wait_for_transaction_receipt", fn, <<>>,
                              o.wait))
    IN  IF o.build # "ok"
        THEN Result(ErrorResponse(500, "", o.build), c1, NoReceipt)
        ELSE IF o.estimate # "ok"
        THEN Result(ErrorResponse(500, TxFailedError, o.estimate), c2,
                    NoReceipt)
        ELSE IF o.transact # "ok"
        THEN Result(ErrorResponse(500, TxFailedError, o.transact), c3,
                    NoReceipt)
        ELSE IF o.wait # "ok"
        THEN Result(ErrorResponse(500, TxFailedError, o.wait), c4, NoReceipt)
        ELSE IF o.receipt.status # 1
        THEN Result(ErrorResponse(500, RevertedError, ""), c4, o.receipt)
        ELSE SuccessResult(fn, args, c4, o.receipt)

\* the outcomes of a handler's transaction over all the collaborators can do
Transactions(fn, args) == {Transaction(fn, args, o) : o \in TxOracles(fn)}

\* `if w3 is None or contract is None`
NotConnected == w3 = None \/ contract = None

ConnectionResult == Result(ErrorResponse(500, ConnectionError, ""), <<>>,
                           NoReceipt)

\* a handler without its outer `except Exception`: the AttributeError
\* leaves the handler and Flask answers its own 500 page
NotObjectUnhandled == Result(UnhandledResponse, <<>>, NoReceipt)

\* data.get(...) on what is no dict raises; the outer handler answers 500
NotObjectResult == Result(ErrorResponse(500, "", "AttributeError"), <<>>,
                          NoReceipt)

MissingResult == Result(ErrorResponse(400, MissingError, ""), <<>>, NoReceipt)

\* int(...) raises; the outer handler answers 500
ValueErrorResult == Result(ErrorResponse(500, "", "ValueError"), <<>>,
                           NoReceipt)

(***************************************************************************)
(* /bond/issue                                                             *)
(***************************************************************************)
\* the check without supply
issue_missing_no_supply(data) ==
    ~ /\ Truthy(data["name"])
      /\ Truthy(data["issuer"])
      /\ data["faceValue"] # PyNone
      /\ data["maturityDate"] # PyNone
      /\ data["interestRate"] # PyNone

\* a check of the numeric fields by truthiness: `not all([name, issuer,
\* face_value, maturity_date, interest_rate, supply])`
issue_missing_truthy(data) ==
    \E f \in {"name", "issuer", "faceValue", "maturityDate", "interestRate",
              "supply"} : ~Truthy(data[f])

issue_missing(data) ==
    ~ /\ Truthy(data["name"])
      /\ Truthy(data["issuer"])
      /\ data["faceValue"] # PyNone
      /\ data["maturityDate"] # PyNone
      /\ data["interestRate"] # PyNone
      /\ data["supply"] # PyNone

IssueNumeric == <<"faceValue", "maturityDate", "interestRate", "supply">>

\* the arguments with faceValue and supply exchanged
issue_args_swapped(data) ==
    <<data["name"], data["issuer"], IntV(PyInt(data["supply"])),
      IntV(PyInt(data["maturityDate"])), IntV(PyInt(data["interestRate"])),
      IntV(PyInt(data["faceValue"]))>>

issue_args(data) ==
    <<data["name"], data["issuer"], IntV(PyInt(data["faceValue"])),
      IntV(PyInt(data["maturityDate"])), IntV(PyInt(data["interestRate"])),
      IntV(PyInt(data["supply"]))>>

\* the results issue_bond can produce on request r
issue_bond_run(r) ==
    IF NotConnected THEN {ConnectionResult}
    ELSE IF r.json # "object" THEN {NotObjectResult}
    ELSE IF issue_missing(r.data) THEN {MissingResult}
    ELSE IF \E i \in 1..4 : ~IntConvertible(r.data[IssueNumeric[i]])
    THEN {ValueErrorResult}
    ELSE Transactions("issueBond", issue_args(r.data))

(***************************************************************************)
(* /bond/purchase and /bond/redeem                                         *)
(***************************************************************************)
amount_missing(data) == data["bondId"] = PyNone \/ data["amount"] = PyNone

amount_args(data) == <<IntV(PyInt(data["bondId"])), IntV(PyInt(data["amount"]))>>

\* the handler that validates the body before it looks at the connection
purchase_bond_validates_first(r) ==
    IF r.json # "object" THEN {NotObjectResult}
    ELSE IF amount_missing(r.data) THEN {MissingResult}
    ELSE IF NotConnected THEN {ConnectionResult}
    ELSE IF ~IntConvertible(r.data["bondId"]) \/ ~IntConvertible(r.data["amount"])
    THEN {ValueErrorResult}
    ELSE Transactions("purchaseBond", amount_args(r.data))

purchase_bond_run(r) ==
    IF NotConnected THEN {ConnectionResult}
    ELSE IF r.json # "object" THEN {NotObjectResult}
    ELSE IF amount_missing(r.data) THEN {MissingResult}
    ELSE IF ~IntConvertible(r.data["bondId"]) \/ ~IntConvertible(r.data["amount"])
    THEN {ValueErrorResult}
    ELSE Transactions("purchaseBond", amount_args(r.data))

\* a redemption that asks for the configured bearer token
redeem_bond_authenticated(r) ==
    IF r.token # AUTH_TOKEN
    THEN {Result(ErrorResponse(401, "Unauthorized", ""), <<>>, NoReceipt)}
    ELSE IF NotConnected THEN {ConnectionResult}
    ELSE IF r.json # "object" THEN {NotObjectResult}
    ELSE IF amount_missing(r.data) THEN {MissingResult}
    ELSE IF ~IntConvertible(r.data["bondId"]) \/ ~IntConvertible(r.data["amount"])
    THEN {ValueErrorResult}
    ELSE Transactions("redeemBond", amount_args(r.data))

redeem_bond_run(r) ==
    IF NotConnected THEN {ConnectionResult}
    ELSE IF r.json # "object" THEN {NotObjectResult}
    ELSE IF amount_missing(r.data) THEN {MissingResult}
    ELSE IF ~IntConvertible(r.data["bondId"]) \/ ~IntConvertible(r.data["amount"])
    THEN {ValueErrorResult}
    ELSE Transactions("redeemBond", amount_args(r.data))

(***************************************************************************)
(* /bond/sell                                                              *)
(***************************************************************************)
sell_missing(data) ==
    \/ data["bondId"] = PyNone
    \/ data["amount"] = PyNone
    \/ ~Truthy(data["buyerAddress"])

ChecksumCall(v) ==
    Call("to_checksum_address", "w3", <<v>>,
         IF ChecksumRaises(v) THEN "error" ELSE "ok")

\* the arguments with the address as the request gave it
sell_args_raw(data) ==
    <<IntV(PyInt(data["bondId"])), IntV(PyInt(data["amount"])),
      data["buyerAddress"]>>

sell_args(data) ==
    <<IntV(PyInt(data["bondId"])), IntV(PyInt(data["amount"])),
      to_checksum_address(data["buyerAddress"])>>

\* the calls of a result, preceded by the calls c
After(c, res) == [res EXCEPT !.calls = c \o res.calls]

sell_bond_run(r) ==
    IF NotConnected THEN {ConnectionResult}
    ELSE IF r.json # "object" THEN {NotObjectResult}
    ELSE IF sell_missing(r.data) THEN {MissingResult}
    ELSE IF ~IntConvertible(r.data["bondId"]) \/ ~IntConvertible(r.data["amount"])
    THEN {ValueErrorResult}
    ELSE IF ChecksumRaises(r.data["buyerAddress"])
    THEN {Result(ErrorResponse(400, "Invalid buyer address format", ""),
                 <<ChecksumCall(r.data["buyerAddress"])>>, NoReceipt)}
    ELSE {After(<<ChecksumCall(r.data["buyerAddress"])>>, res) :
            res \in Transactions("sellBond", sell_args(r.data))}

(***************************************************************************)
(* The view endpoints.                                                     *)
(***************************************************************************)
BoolV(b) == Value("bool", b, <<>>)

\* what a view function returns: its shape and its items
Ret(shape, v) == [shape |-> shape, v |-> v]

\* no view call has returned
NoReturn == Ret("none", <<>>)

\* a result of a handler whose view call returned ret
Returning(res, ret) ==
    [resp |-> res.resp, calls |-> res.calls, receipt |-> res.receipt,
     ret |-> ret]

\* what <function>.call() does: returns ret, or raises with out's message
ViewOracle(out, ret) == [out |-> out, ret |-> ret]

ViewOracles(rets) ==
    {ViewOracle(m, NoReturn) : m \in Msgs}
        \cup {ViewOracle("ok", x) : x \in rets}

InfoTuple == <<StrV(<<"B">>), StrV(<<"I">>), IntV(5), IntV(7), IntV(1),
               IntV(2), BoolV(1)>>

InfoDefaults == <<StrV(<<>>), StrV(<<>>), IntV(0), IntV(0), IntV(0), IntV(0),
                  BoolV(0)>>

\* getBondInfo returns a tuple (possibly too short) or a dict (possibly
\* without a key, PyNone marking the key that is not there)
InfoRets == {Ret("tuple", InfoTuple), Ret("tuple", SubSeq(InfoTuple, 1, 2)),
             Ret("dict", InfoTuple),
             Ret("dict", [InfoTuple EXCEPT ![1] = PyNone])}

HolderRets == {Ret("list", <<>>),
               Ret("list", <<StrV(<<"0x", "A", "b">>)>>)}

CountRets == {Ret("int", <<IntV(0)>>), Ret("int", <<IntV(15)>>)}

AmountRets == {Ret("int", <<IntV(0)>>), Ret("int", <<IntV(10)>>)}

\* contract.functions.<fn>(*args).call() and the response built by shape
ViewResult(fn, args, o, prefix, shape) ==
    LET c == <<Call("call", fn, args, o.out)>>
    IN  IF o.out # "ok"
        THEN Result(ErrorResponse(500, prefix, o.out), c, NoReceipt)
        ELSE Returning(Result(shape, c, NoReceipt), o.ret)

get_bond_info_shape(bond_id, ret) ==
    IF ret.shape = "dict"
    THEN OkResponse(200, "", "",
            <<IntV(bond_id)>> \o
            [i \in 1..7 |-> IF ret.v[i] = PyNone THEN InfoDefaults[i]
                            ELSE ret.v[i]])
    ELSE IF Len(ret.v) < 7
    THEN ErrorResponse(500, "Failed to retrieve bond info from smart contract",
                       "IndexError")
    ELSE OkResponse(200, "", "", <<IntV(bond_id)>> \o SubSeq(ret.v, 1, 7))

get_bond_info_run(r) ==
    IF NotConnected THEN {ConnectionResult}
    ELSE {ViewResult("getBondInfo", <<IntV(r.bond_id)>>, o,
                     "Failed to retrieve bond info from smart contract",
                     get_bond_info_shape(r.bond_id, o.ret)) :
            o \in ViewOracles(InfoRets)}

get_bond_holders_run(r) ==
    IF NotConnected THEN {ConnectionResult}
    ELSE {ViewResult("getBondHolders", <<IntV(r.bond_id)>>, o,
                     "Failed to retrieve bond holders from smart contract",
                     OkResponse(200, "", "", <<IntV(r.bond_id)>> \o o.ret.v)) :
            o \in ViewOracles(HolderRets)}

\* the arguments with the address as the path gave it
holder_amount_args_raw(r) == <<IntV(r.bond_id), r.holder_address>>

holder_amount_args(r) == <<IntV(r.bond_id), to_checksum_address(r.holder_address)>>

get_bond_holder_amount_run(r) ==
    IF NotConnected THEN {ConnectionResult}
    ELSE IF ChecksumRaises(r.holder_address)
    THEN {Result(ErrorResponse(400, "Invalid holder address format", ""),
                 <<ChecksumCall(r.holder_address)>>, NoReceipt)}
    ELSE {After(<<ChecksumCall(r.holder_address)>>,
                ViewResult("getBondHolderAmount", holder_amount_args(r), o,
                    "Failed to retrieve bond holder amount from smart contract",
                    OkResponse(200, "", "", holder_amount_args(r) \o o.ret.v))) :
            o \in ViewOracles(AmountRets)}

\* a count endpoint that answers 0 whatever bondCount returned
get_bond_count_constant(r) ==
    IF NotConnected THEN {ConnectionResult}
    ELSE {ViewResult("bondCount", <<>>, o,
                     "Failed to retrieve bond count from smart contract",
                     OkResponse(200, "", "", <<IntV(0)>>)) :
            o \in ViewOracles(CountRets)}

get_bond_count_run(r) ==
    IF NotConnected THEN {ConnectionResult}
    ELSE {ViewResult("bondCount", <<>>, o,
                     "Failed to retrieve bond count from smart contract",
                     OkResponse(200, "", "", o.ret.v)) :
            o \in ViewOracles(CountRets)}

(***************************************************************************)
(* /status                                                                 *)
(***************************************************************************)
\* jsonify({"status": ..., "blockchain_connected": connected,
\*          "contract_deployed": contract is not None,
\*          "contract_address": ...})
StatusResponse(connected) ==
    OkResponse(200, "API is running", "",
               <<BoolV(IF connected THEN 1 ELSE 0),
                 BoolV(IF contract # None THEN 1 ELSE 0),
                 StrV(<<IF CONTRACT_ADDRESS # "" THEN CONTRACT_ADDRESS
                        ELSE "Not configured">>)>>)

\* the results get_api_status can produce: is_connected() answered or
\* raised
get_api_status_run ==
    IF w3 = None THEN {Result(StatusResponse(FALSE), <<>>, NoReceipt)}
    ELSE {Result(StatusResponse(p = "True"),
                 <<Call("is_connected", "get_api_status", <<>>, p)>>,
                 NoReceipt) : p \in ConnOut}

(***************************************************************************)
(* /health and /contract/address                                           *)
(***************************************************************************)
\* jsonify({"status": "healthy"})
health_check_run ==
    {Result(OkResponse(200, "healthy", "", <<>>), <<>>, NoReceipt)}

\* jsonify({"contract_address": CONTRACT_ADDRESS if CONTRACT_ADDRESS
\*                              else "Not configured"})
get_contract_address_run ==
    {Result(OkResponse(200, "", "",
                       <<StrV(<<IF CONTRACT_ADDRESS # "" THEN CONTRACT_ADDRESS
                                ELSE "Not configured">>)>>),
            <<>>, NoReceipt)}

\* the routes of the application
Routes == {"/health", "/status", "/contract/address", "/bond/issue",
           "/bond/purchase", "/bond/sell", "/bond/redeem", "/bond/count",
           "/bond/<id>/info", "/bond/<id>/holders",
           "/bond/<id>/holder/<addr>/amount"}

(***************************************************************************)
(* The state machine.                                                      *)
(***************************************************************************)
Init ==
    /\ CONTRACT_ADDRESS \in {"", "0xC0"}
    /\ w3 = None
    /\ contract = None
    /\ pc = "idle"
    /\ req = NoRequest
    /\ calls = <<>>
    /\ receipt = NoReceipt
    /\ resp = NoResponse
    /\ returned = NoReturn

\* a request arrives and the before_request hook runs
ensure_connection ==
    /\ pc \in {"idle", "done", "faulted"}
    /\ \E e \in EnsureOutcomes :
          /\ w3' = e.w3
          /\ contract' = e.contract
          /\ calls' = e.calls
          /\ IF e.raised
             THEN \* the request, whatever its route, is answered by Flask
                  /\ pc' = "faulted"
                  /\ resp' = UnhandledResponse
                  /\ \E route \in Routes :
                        req' = Request(route, "none", EmptyObject, 0, PyNone)
             ELSE /\ pc' = "handler"
                  /\ resp' = NoResponse
                  /\ req' = NoRequest
    /\ receipt' = NoReceipt
    /\ returned' = NoReturn
    /\ UNCHANGED CONTRACT_ADDRESS

\* a handler that drops the cached client when it answers 500
FinishDroppingClient(r, res) ==
    /\ req' = r
    /\ resp' = res.resp
    /\ calls' = calls \o res.calls
    /\ receipt' = res.receipt
    /\ returned' = IF "ret" \in DOMAIN res THEN res.ret ELSE NoReturn
    /\ pc' = "done"
    /\ w3' = IF res.resp.status = 500 THEN None ELSE w3
    /\ UNCHANGED <<CONTRACT_ADDRESS, contract>>

\* the handler of request r ends with result res
Finish(r, res) ==
    /\ req' = r
    /\ resp' = res.resp
    /\ calls' = calls \o res.calls
    /\ receipt' = res.receipt
    /\ returned' = IF "ret" \in DOMAIN res THEN res.ret ELSE NoReturn
    /\ pc' = "done"
    /\ UNCHANGED <<CONTRACT_ADDRESS, w3, contract>>

\* the requests a route with a JSON body receives
Posts(endpoint, bodies) ==
    {Request(endpoint, "object", d, 0, PyNone) : d \in bodies}
        \cup {Request(endpoint, "other", EmptyObject, 0, PyNone)}

\* the requests a route receives, before their bearer token
RouteRequests(route) ==
    CASE route = "/bond/issue"    -> Posts(route, IssueBodies)
      [] route = "/bond/sell"     -> Posts(route, SellBodies)
      [] route \in {"/bond/purchase", "/bond/redeem"} ->
            Posts(route, AmountBodies)
      [] route \in {"/bond/<id>/info", "/bond/<id>/holders"} ->
            {Request(route, "none", EmptyObject, id, PyNone) :
                id \in PathBondIds}
      [] route = "/bond/<id>/holder/<addr>/amount" ->
            {Request(route, "none", EmptyObject, id, a) :
                id \in PathBondIds, a \in PathAddresses}
      [] OTHER -> {Request(route, "none", EmptyObject, 0, PyNone)}

\* the route decorators: the handler that serves request r
handler_run(r) ==
    CASE r.endpoint = "/bond/issue"        -> issue_bond_run(r)
      [] r.endpoint = "/bond/purchase"     -> purchase_bond_run(r)
      [] r.endpoint = "/bond/sell"         -> sell_bond_run(r)
      [] r.endpoint = "/bond/redeem"       -> redeem_bond_run(r)
      [] r.endpoint = "/bond/<id>/info"    -> get_bond_info_run(r)
      [] r.endpoint = "/bond/<id>/holders" -> get_bond_holders_run(r)
      [] r.endpoint = "/bond/<id>/holder/<addr>/amount" ->
            get_bond_holder_amount_run(r)
      [] r.endpoint = "/bond/count"        -> get_bond_count_run(r)
      [] r.endpoint = "/status"            -> get_api_status_run
      [] r.endpoint = "/health"            -> health_check_run
      [] r.endpoint = "/contract/address"  -> get_contract_address_run

issue_bond ==
    /\ pc = "handler"
    /\ \E r \in Posts("/bond/issue", IssueBodies), t \in Tokens :
         \E res \in issue_bond_run(Bearing(r, t)) : Finish(r, res)

purchase_bond ==
    /\ pc = "handler"
    /\ \E r \in Posts("/bond/purchase", AmountBodies), t \in Tokens :
         \E res \in purchase_bond_run(Bearing(r, t)) : Finish(r, res)

sell_bond ==
    /\ pc = "handler"
    /\ \E r \in Posts("/bond/sell", SellBodies), t \in Tokens :
         \E res \in sell_bond_run(Bearing(r, t)) : Finish(r, res)

redeem_bond ==
    /\ pc = "handler"
    /\ \E r \in Posts("/bond/redeem", AmountBodies), t \in Tokens :
         \E res \in redeem_bond_run(Bearing(r, t)) : Finish(r, res)

get_bond_info ==
    /\ pc = "handler"
    /\ \E id \in PathBondIds, t \in Tokens :
         LET r == Request("/bond/<id>/info", "none", EmptyObject, id, PyNone)
         IN  \E res \in get_bond_info_run(Bearing(r, t)) : Finish(r, res)

get_bond_holders ==
    /\ pc = "handler"
    /\ \E id \in PathBondIds, t \in Tokens :
         LET r == Request("/bond/<id>/holders", "none", EmptyObject, id, PyNone)
         IN  \E res \in get_bond_holders_run(Bearing(r, t)) : Finish(r, res)

get_bond_holder_amount ==
    /\ pc = "handler"
    /\ \E id \in PathBondIds, a \in PathAddresses, t \in Tokens :
         LET r == Request("/bond/<id>/holder/<addr>/amount", "none",
                          EmptyObject, id, a)
         IN  \E res \in get_bond_holder_amount_run(Bearing(r, t)) :
                Finish(r, res)

get_bond_count ==
    /\ pc = "handler"
    /\ \E t \in Tokens :
         LET r == Request("/bond/count", "none", EmptyObject, 0, PyNone)
         IN  \E res \in get_bond_count_run(Bearing(r, t)) : Finish(r, res)

get_api_status ==
    /\ pc = "handler"
    /\ LET r == Request("/status", "none", EmptyObject, 0, PyNone)
       IN  \E res \in get_api_status_run : Finish(r, res)

health_check ==
    /\ pc = "handler"
    /\ LET r == Request("/health", "none", EmptyObject, 0, PyNone)
       IN  \E res \in health_check_run : Finish(r, res)

get_contract_address ==
    /\ pc = "handler"
    /\ LET r == Request("/contract/address", "none", EmptyObject, 0, PyNone)
       IN  \E res \in get_contract_address_run : Finish(r, res)

Next ==
    \/ ensure_connection
    \/ issue_bond
    \/ purchase_bond
    \/ sell_bond
    \/ redeem_bond
    \/ get_bond_info
    \/ get_bond_holders
    \/ get_bond_holder_amount
    \/ get_bond_count
    \/ get_api_status
    \/ health_check
    \/ get_contract_address

Spec == Init /\ [][Next]_vars

(***************************************************************************)
(* Two requests served at once.  The handler of /bond/sell reads the       *)
(* module globals w3 and contract anew at each of its statements; between  *)
(* two statements the hook of another request, served by another thread,   *)
(* may run and assign the globals.                                         *)
(***************************************************************************)
\* the handler goes on to its next statement, having made calls c
Continue(next, c) ==
    /\ pc' = next
    /\ calls' = calls \o c
    /\ UNCHANGED <<CONTRACT_ADDRESS, w3, contract, req, receipt, resp,
                   returned>>

\* the AttributeError of an attribute read on w3 = None, answered by the
\* inner `except Exception as e`
NoneClientResult ==
    Result(ErrorResponse(500, TxFailedError, "AttributeError"), <<>>,
           NoReceipt)

InvalidAddressResult(c) ==
    Result(ErrorResponse(400, "Invalid buyer address format", ""), c,
           NoReceipt)

\* the connectivity check, the body, the missing check and the conversions
sell_bond_check ==
    /\ pc = "handler"
    /\ \E r \in Posts("/bond/sell", SellBodies) :
          IF NotConnected THEN Finish(r, ConnectionResult)
          ELSE IF r.json # "object" THEN Finish(r, NotObjectResult)
          ELSE IF sell_missing(r.data) THEN Finish(r, MissingResult)
          ELSE IF \/ ~IntConvertible(r.data["bondId"])
                  \/ ~IntConvertible(r.data["amount"])
          THEN Finish(r, ValueErrorResult)
          ELSE /\ req' = r
               /\ pc' = "checksum"
               /\ UNCHANGED <<CONTRACT_ADDRESS, w3, contract, calls, receipt,
                              resp, returned>>

\* `try: buyer_address = w3.to_checksum_address(buyer_address)`
\* `except Exception: return ... 400`
sell_bond_checksum ==
    /\ pc = "checksum"
    /\ IF w3 = None THEN Finish(req, InvalidAddressResult(<<>>))
       ELSE IF ChecksumRaises(req.data["buyerAddress"])
       THEN Finish(req, InvalidAddressResult(
                            <<ChecksumCall(req.data["buyerAddress"])>>))
       ELSE Continue("build", <<ChecksumCall(req.data["buyerAddress"])>>)

\* `tx = contract.functions.sellBond(bond_id, amount, buyer_address)`
sell_bond_build ==
    /\ pc = "build"
    /\ \E o \in {"ok"} \cup Msgs :
          LET c == <<Call("function", "sellBond", sell_args(req.data), o)>>
          IN  IF o = "ok" THEN Continue("estimate", c)
              ELSE Finish(req, Result(ErrorResponse(500, "", o), c, NoReceipt))

\* `gas_estimate = tx.estimate_gas({'from': w3.eth.default_account})`
sell_bond_estimate ==
    /\ pc = "estimate"
    /\ IF w3 = None THEN Finish(req, NoneClientResult)
       ELSE \E o \in {"ok"} \cup Msgs :
               LET c == <<Call("estimate_gas", "sellBond",
                               <<default_account>>, o)>>
               IN  IF o = "ok" THEN Continue("transact", c)
                   ELSE Finish(req, Result(ErrorResponse(500, TxFailedError, o),
                                           c, NoReceipt))

\* `tx_hash = tx.transact({'from': w3.eth.default_account, 'gas': ...})`
sell_bond_transact ==
    /\ pc = "transact"
    /\ IF w3 = None THEN Finish(req, NoneClientResult)
       ELSE \E o \in {"ok"} \cup Msgs :
               LET c == <<Call("transact", "sellBond", <<default_account>>, o)>>
               IN  IF o = "ok" THEN Continue("wait", c)
                   ELSE Finish(req, Result(ErrorResponse(500, TxFailedError, o),
                                           c, NoReceipt))

\* `tx_receipt = w3.eth.wait_for_transaction_receipt(tx_hash)` and the
\* rest of the handler
sell_bond_wait ==
    /\ pc = "wait"
    /\ IF w3 = None THEN Finish(req, NoneClientResult)
       ELSE \/ \E m \in Msgs :
                  Finish(req, Result(ErrorResponse(500, TxFailedError, m),
                                     <<Call("wait_for_transaction_receipt",
                                            "sellBond", <<>>, m)>>,
                                     NoReceipt))
            \/ \E rc \in ReceiptsOf("sellBond") :
                  LET c == <<Call("wait_for_transaction_receipt", "sellBond",
                                  <<>>, "ok")>>
                  IN  Finish(req,
                             IF rc.status # 1
                             THEN Result(ErrorResponse(500, RevertedError, ""),
                                         c, rc)
                             ELSE SuccessResult("sellBond",
                                                sell_args(req.data), c, rc))

\* the handler is between its connectivity check and its response
InFlight == pc \in {"checksum", "build", "estimate", "transact", "wait"}

\* the hook of another request runs while the handler is in flight, and
\* changes the cached pair
other_ensure_connection ==
    /\ InFlight
    /\ \E e \in EnsureOutcomes :
          /\ <<e.w3, e.contract>> # <<w3, contract>>
          /\ w3' = e.w3
          /\ contract' = e.contract
    /\ UNCHANGED <<CONTRACT_ADDRESS, pc, req, calls, receipt, resp,
                   returned>>

ConcurrentNext ==
    \/ ensure_connection
    \/ sell_bond_check
    \/ sell_bond_checksum
    \/ sell_bond_build
    \/ sell_bond_estimate
    \/ sell_bond_transact
    \/ sell_bond_wait
    \/ other_ensure_connection

ConcurrentSpec == Init /\ [][ConcurrentNext]_vars

(***************************************************************************)
(* Vocabulary of the properties.                                           *)
(***************************************************************************)
MutatingEndpoints == {"/bond/issue", "/bond/purchase", "/bond/sell",
                      "/bond/redeem"}

ViewEndpoints == {"/bond/<id>/info", "/bond/<id>/holders",
                  "/bond/<id>/holder/<addr>/amount", "/bond/count"}

\* the calls ensure_connection makes
HookOps == {"is_connected", "connect", "contract"}

\* the calls that reach the chain: the three steps of a transaction and a
\* view call (building a function object, normalising an address and
\* decoding a log entry are local to the client library)
ChainOps == {"estimate_gas", "transact", "wait_for_transaction_receipt",
             "call"}

\* the calls the handler made
HandlerCalls == SelectSeq(calls, LAMBDA c : c.op \notin HookOps)

\* the operations of the calls of h that belong to ops, in order
OpsIn(h, ops) ==
    LET sel == SelectSeq(h, LAMBDA c : c.op \in ops)
    IN  [i \in 1..Len(sel) |-> sel[i].op]

\* a handler has run and answered request req
Handled(endpoints) == pc = "done" /\ req.endpoint \in endpoints

ContractFunction(endpoint) ==
    CASE endpoint = "/bond/issue"    -> "issueBond"
      [] endpoint = "/bond/purchase" -> "purchaseBond"
      [] endpoint = "/bond/sell"     -> "sellBond"
      [] endpoint = "/bond/redeem"   -> "redeemBond"

RequiredFields(endpoint) ==
    CASE endpoint = "/bond/issue" ->
            {"name", "issuer", "faceValue", "maturityDate", "interestRate",
             "supply"}
      [] endpoint = "/bond/sell" -> {"bondId", "amount", "buyerAddress"}
      [] OTHER -> {"bondId", "amount"}

NumericFields(endpoint) ==
    CASE endpoint = "/bond/issue" ->
            {"faceValue", "maturityDate", "interestRate", "supply"}
      [] OTHER -> {"bondId", "amount"}

\* the request passes validation: a JSON object, every required field
\* present and not empty, every numeric field a number, the address an
\* address
PassesValidation ==
    /\ req.json = "object"
    /\ \A f \in RequiredFields(req.endpoint) : Truthy(req.data[f]) \/
          (f \in NumericFields(req.endpoint) /\ req.data[f] # PyNone)
    /\ \A f \in NumericFields(req.endpoint) : IntConvertible(req.data[f])
    /\ req.endpoint = "/bond/sell" => IsAddress(req.data["buyerAddress"])

(***************************************************************************)
(* C1: a successful request to a mutating endpoint made exactly one gas    *)
(* estimation, one submission and one receipt wait, in that order; the     *)
(* receipt wait is the last call that reaches the chain, and what follows  *)
(* it is at most the decoding of the receipt's log entries by /bond/issue. *)
(***************************************************************************)
C1_EstimateSubmitConfirm ==
    (Handled(MutatingEndpoints) /\ resp.status \in {200, 201}) =>
        LET h == HandlerCalls
        IN  /\ OpsIn(h, ChainOps) = <<"estimate_gas", "transact",
                                      "wait_for_transaction_receipt">>
            /\ \A i, j \in 1..Len(h) :
                 (h[i].op = "wait_for_transaction_receipt" /\ i < j) =>
                    /\ h[j].op = "process_log"
                    /\ req.endpoint = "/bond/issue"
            /\ \A i \in 1..Len(h) : h[i].op \in ChainOps => h[i].out = "ok"

C1_Witness ==
    /\ Handled({"/bond/issue"})
    /\ resp.status = 201
    /\ Len(receipt.logs) = 2
    /\ Len(HandlerCalls) = 6

(***************************************************************************)
(* C2: a request to a mutating endpoint that passes validation invokes the *)
(* endpoint's contract function exactly once, with the arguments of the    *)
(* request in the declared order, the numeric ones as integers, and        *)
(* invokes no other contract function.                                     *)
(***************************************************************************)
ExpectedInt(v) ==
    CASE v = StrV(<<"1", "2">>) -> IntV(12)
      [] v = StrV(<<"1", "0">>) -> IntV(10)
      [] v = StrV(<<"3">>) -> IntV(3)
      [] OTHER -> v

ExpectedArgs ==
    LET d == req.data
    IN  CASE req.endpoint = "/bond/issue" ->
                <<d["name"], d["issuer"], ExpectedInt(d["faceValue"]),
                  ExpectedInt(d["maturityDate"]),
                  ExpectedInt(d["interestRate"]), ExpectedInt(d["supply"])>>
          [] req.endpoint = "/bond/sell" ->
                <<ExpectedInt(d["bondId"]), ExpectedInt(d["amount"]),
                  StrV(<<"0x", "A", "b">>)>>
          [] OTHER -> <<ExpectedInt(d["bondId"]), ExpectedInt(d["amount"])>>

C2_ContractFunctionArguments ==
    (Handled(MutatingEndpoints) /\ ~NotConnected /\ PassesValidation) =>
        LET f == SelectSeq(HandlerCalls, LAMBDA c : c.op = "function")
        IN  /\ Len(f) = 1
            /\ f[1].fn = ContractFunction(req.endpoint)
            /\ f[1].args = ExpectedArgs
            /\ \A i \in 1..Len(f[1].args) :
                 f[1].args[i].t = "int" <=>
                    i \in (IF req.endpoint = "/bond/issue" THEN 3..6 ELSE 1..2)

C2_Witness ==
    /\ Handled({"/bond/issue"})
    /\ req.data["faceValue"] = StrV(<<"1", "2">>)
    /\ req.data["supply"] = IntV(4)
    /\ \E i \in 1..Len(calls) :
         /\ calls[i].op = "function"
         /\ calls[i].fn = "issueBond"
         /\ calls[i].args[3] = IntV(12)
         /\ calls[i].args[6] = IntV(4)

(***************************************************************************)
(* C3: with the connection pair available, a JSON object that omits a      *)
(* required field is answered 400 with an error body, and the handler      *)
(* makes no call at all on the client or the contract.                     *)
(***************************************************************************)
C3_MissingFieldNoCall ==
    (/\ Handled(MutatingEndpoints)
     /\ ~NotConnected
     /\ req.json = "object"
     /\ \E f \in RequiredFields(req.endpoint) : req.data[f] = PyNone) =>
        /\ resp.status = 400
        /\ resp.kind = "json"
        /\ resp.error # ""
        /\ HandlerCalls = <<>>
        /\ receipt = NoReceipt

C3_Witness ==
    /\ Handled({"/bond/issue"})
    /\ ~NotConnected
    /\ req.data["supply"] = PyNone
    /\ req.data["faceValue"] = StrV(<<"x">>)
    /\ Truthy(req.data["name"])
    /\ resp.status = 400

(***************************************************************************)
(* C4: when the receipt the wait returned has a status other than success, *)
(* the response is 500 with an error body and the receipt wait is the last *)
(* call of the handler: no log entry is decoded.                           *)
(***************************************************************************)
C4_RevertedReceipt ==
    (/\ Handled(MutatingEndpoints)
     /\ receipt # NoReceipt
     /\ receipt.status # 1) =>
        LET h == HandlerCalls
        IN  /\ resp.status = 500
            /\ resp.kind = "json"
            /\ resp.error # ""
            /\ h # <<>>
            /\ h[Len(h)].op = "wait_for_transaction_receipt"
            /\ \A i \in 1..Len(h) : h[i].op # "process_log"

C4_Witness ==
    /\ Handled({"/bond/issue"})
    /\ receipt.status = 0
    /\ \E i \in 1..Len(receipt.logs) : receipt.logs[i].event = "BondIssued"
    /\ resp.status = 500

(***************************************************************************)
(* C5: with no contract address configured, no connection to either        *)
(* endpoint is ever attempted, the cached pair stays (None, None), and     *)
(* every blockchain-dependent endpoint answers 500.                        *)
(***************************************************************************)
C5_NoAddressNoConnection ==
    CONTRACT_ADDRESS = "" =>
        /\ w3 = None
        /\ contract = None
        /\ \A i \in 1..Len(calls) : calls[i].op \notin HookOps
        /\ Handled(MutatingEndpoints \cup ViewEndpoints) =>
              /\ resp.status = 500
              /\ calls = <<>>

C5_Witness ==
    /\ CONTRACT_ADDRESS = ""
    /\ Handled({"/bond/count"})
    /\ resp.status = 500

(***************************************************************************)
(* C6: when the cached client or the cached binding is None as a handler   *)
(* of a blockchain-dependent endpoint runs, the answer is the connection   *)
(* error, 500, whatever the payload, and the handler makes no call.        *)
(***************************************************************************)
C6_ConnectivityFirst ==
    (Handled(MutatingEndpoints \cup ViewEndpoints) /\ NotConnected) =>
        /\ resp = ErrorResponse(500, ConnectionError, "")
        /\ HandlerCalls = <<>>
        /\ receipt = NoReceipt

\* a request that would be answered 400 finds the client gone while the
\* binding is still cached
C6_Witness ==
    /\ Handled({"/bond/purchase"})
    /\ w3 = None
    /\ contract # None
    /\ req.json = "object"
    /\ req.data["amount"] = PyNone
    /\ resp.status = 500

(***************************************************************************)
(* C7: a gas estimation that fails is the last call of its handler, and so *)
(* is a submission that fails: nothing is submitted after the first,       *)
(* nothing is awaited after either, no step runs twice, and the response   *)
(* is 500 with the failure's message in the error body.                    *)
(***************************************************************************)
C7_FailureAborts ==
    Handled(MutatingEndpoints) =>
        LET h == HandlerCalls
        IN  \A i \in 1..Len(h) :
              (h[i].op \in {"estimate_gas", "transact"} /\ h[i].out # "ok") =>
                 /\ i = Len(h)
                 /\ \A j \in 1..(i - 1) : h[j].op # h[i].op
                 /\ \A j \in 1..Len(h) :
                      h[j].op # "wait_for_transaction_receipt"
                 /\ h[i].op = "estimate_gas" =>
                      \A j \in 1..Len(h) : h[j].op # "transact"
                 /\ resp.status = 500
                 /\ resp.kind = "json"
                 /\ resp.error = TxFailedError
                 /\ resp.detail = h[i].out
                 /\ receipt = NoReceipt

C7_Witness ==
    /\ Handled({"/bond/redeem"})
    /\ resp.detail = "revert"
    /\ Len(HandlerCalls) = 3
    /\ HandlerCalls[3].op = "transact"
    /\ HandlerCalls[3].out = "revert"

(***************************************************************************)
(* C8: a successful /bond/issue answers 201 with the bondId of the first   *)
(* log entry, in order, that decodes as BondIssued; entries before it were *)
(* tried, entries after it are not; with no such entry the bondId is       *)
(* "Unknown".                                                              *)
(***************************************************************************)
FirstIssued(logs) ==
    IF \E i \in 1..Len(logs) : logs[i].event = "BondIssued"
    THEN CHOOSE i \in 1..Len(logs) :
            /\ logs[i].event = "BondIssued"
            /\ \A j \in 1..(i - 1) : logs[j].event # "BondIssued"
    ELSE 0

C8_FirstDecodedBondId ==
    (/\ Handled({"/bond/issue"})
     /\ receipt # NoReceipt
     /\ receipt.status = 1) =>
        LET k == FirstIssued(receipt.logs)
            decoded == SelectSeq(HandlerCalls, LAMBDA c : c.op = "process_log")
        IN  /\ resp.status = 201
            /\ resp.message # ""
            /\ resp.vals = IF k = 0 THEN <<StrV(<<"Unknown">>)>>
                           ELSE <<IntV(receipt.logs[k].bondId)>>
            /\ Len(decoded) = IF k = 0 THEN Len(receipt.logs) ELSE k
            /\ \A i \in 1..Len(decoded) : decoded[i].args = <<IntV(i)>>

C8_Witness ==
    /\ Handled({"/bond/issue"})
    /\ receipt.status = 1
    /\ Len(receipt.logs) = 2
    /\ receipt.logs[1].event = "BondIssued"
    /\ receipt.logs[2].event = "BondIssued"
    /\ receipt.logs[1].bondId # receipt.logs[2].bondId
    /\ resp.vals = <<IntV(receipt.logs[1].bondId)>>

C8_WitnessUnknown ==
    /\ Handled({"/bond/issue"})
    /\ receipt.status = 1
    /\ Len(receipt.logs) = 2
    /\ resp.status = 201
    /\ resp.vals = <<StrV(<<"Unknown">>)>>

(***************************************************************************)
(* C9: the holder-amount endpoint normalises the address first and then    *)
(* calls getBondHolderAmount exactly once with the bond id and the         *)
(* normalised address; an address that does not normalise is answered 400  *)
(* and getBondHolderAmount is not called.                                  *)
(***************************************************************************)
\* the checksum form of the addresses the model uses
ChecksumForm(v) ==
    IF v \in {StrV(<<"0x", "a", "b">>), StrV(<<"0x", "A", "b">>),
              StrV(<<"0x", "A", "B">>)}
    THEN StrV(<<"0x", "A", "b">>) ELSE PyNone

C9_HolderAmountArguments ==
    (Handled({"/bond/<id>/holder/<addr>/amount"}) /\ ~NotConnected) =>
        LET h == HandlerCalls
            norm == ChecksumForm(req.holder_address)
        IN  /\ h # <<>>
            /\ h[1].op = "to_checksum_address"
            /\ h[1].args = <<req.holder_address>>
            /\ IF norm = PyNone
               THEN /\ Len(h) = 1
                    /\ resp.status = 400
                    /\ resp.error # ""
               ELSE /\ Len(h) = 2
                    /\ h[2] = Call("call", "getBondHolderAmount",
                                   <<IntV(req.bond_id), norm>>, h[2].out)
                    /\ resp.status \in {200, 500}
                    /\ resp.status = 200 <=> h[2].out = "ok"

C9_Witness ==
    /\ Handled({"/bond/<id>/holder/<addr>/amount"})
    /\ req.holder_address = StrV(<<"0x", "a", "b">>)
    /\ req.bond_id = 2
    /\ resp.status = 200
    /\ HandlerCalls[2].args = <<IntV(2), StrV(<<"0x", "A", "b">>)>>

C9_WitnessInvalid ==
    /\ Handled({"/bond/<id>/holder/<addr>/amount"})
    /\ req.holder_address = StrV(<<"z">>)
    /\ resp.status = 400

(***************************************************************************)
(* C10: /bond/sell normalises buyerAddress before it touches the contract: *)
(* an address that does not normalise is answered 400 with sellBond never  *)
(* built, estimated or submitted; otherwise sellBond gets the normalised   *)
(* address, not the request's, as its third argument.                      *)
(***************************************************************************)
C10_SellNormalisesFirst ==
    (Handled({"/bond/sell"}) /\ ~NotConnected) =>
        LET h == HandlerCalls
            d == req.data
            reaches == /\ req.json = "object"
                       /\ d["bondId"] # PyNone
                       /\ d["amount"] # PyNone
                       /\ Truthy(d["buyerAddress"])
                       /\ IntConvertible(d["bondId"])
                       /\ IntConvertible(d["amount"])
            norm == ChecksumForm(d["buyerAddress"])
        IN  /\ \A i \in 1..Len(h) :
                 h[i].op \in {"function"} \cup ChainOps =>
                    /\ i > 1
                    /\ h[1] = Call("to_checksum_address", "w3",
                                   <<d["buyerAddress"]>>, "ok")
            /\ (reaches /\ norm = PyNone) =>
                 /\ resp = ErrorResponse(400, "Invalid buyer address format", "")
                 /\ Len(h) = 1
                 /\ h[1].op = "to_checksum_address"
                 /\ h[1].out = "error"
            /\ (reaches /\ norm # PyNone) =>
                 /\ Len(h) >= 2
                 /\ h[2].op = "function"
                 /\ h[2].fn = "sellBond"
                 /\ h[2].args[3] = norm

C10_Witness ==
    /\ Handled({"/bond/sell"})
    /\ req.data["buyerAddress"] = StrV(<<"0x", "A", "B">>)
    /\ resp.status = 200
    /\ resp.vals[3] = StrV(<<"0x", "A", "b">>)

C10_WitnessInvalid ==
    /\ Handled({"/bond/sell"})
    /\ req.data["buyerAddress"] = IntV(5)
    /\ resp.status = 400
    /\ Len(HandlerCalls) = 1

(***************************************************************************)
(* C11: establishing a connection tries the primary endpoint first; when   *)
(* that attempt fails in any way the fallback is tried exactly once; the   *)
(* fallback is not tried when the primary succeeds; there are at most      *)
(* these two attempts.                                                     *)
(***************************************************************************)
\* the endpoint attempts of the last run of the hook
Attempts == SelectSeq(calls, LAMBDA c : c.op = "connect")

C11_PrimaryThenFallback ==
    Attempts # <<>> =>
        /\ Attempts[1].fn = "WEB3_PROVIDER"
        /\ Len(Attempts) <= 2
        /\ Attempts[1].out = "True" => Len(Attempts) = 1
        /\ Attempts[1].out # "True" =>
              /\ Len(Attempts) = 2
              /\ Attempts[2].fn = "DEFAULT_WEB3_PROVIDER"

(***************************************************************************)
(* C12: ensure_connection never raises to its caller: whatever the probe,  *)
(* the two endpoint attempts and the creation of the binding do, the hook  *)
(* completes, the handler of the request runs, and the cache holds a       *)
(* client with its binding or neither.                                     *)
(***************************************************************************)
\* the request ended in the hook: no handler ran
HookRaised == pc = "faulted" /\ resp = UnhandledResponse

C12_HookNeverRaises ==
    /\ ~HookRaised
    /\ pc = "handler" => (w3 = None <=> contract = None)

(***************************************************************************)
(* C13: in every state a handler observes, /status included, the cached    *)
(* client and the cached binding are both present or both none.            *)
(***************************************************************************)
\* a handler is about to run or has run on the cache as it stands
HandlerObserves == pc = "handler" \/ (pc = "done" /\ req # NoRequest)

C13_PairTwoValued ==
    HandlerObserves => ((w3 = None /\ contract = None)
                          \/ (w3 # None /\ contract # None))

(***************************************************************************)
(* C14: when the hook finds the cached client disconnected and the new     *)
(* connection attempt succeeds, the binding is replaced with the client:   *)
(* the cached binding is the one created from the cached client.           *)
(***************************************************************************)
\* the hook just run found the cached client disconnected and replaced it
Reconnected ==
    /\ pc = "handler"
    /\ calls # <<>>
    /\ calls[1] = Call("is_connected", "w3", <<>>, "False")
    /\ w3 # None

C14_BindingFollowsClient == Reconnected => contract = w3

(***************************************************************************)
(* C15: when the cached client is present and reports connected and the    *)
(* cached binding is present, a run of ensure_connection attempts no       *)
(* connection to either endpoint, creates no binding and leaves the        *)
(* cached pair as it was, however many times it runs.                      *)
(***************************************************************************)
\* this step is a run of the hook on a connected pair
ConnectedHookStep ==
    /\ pc \in {"idle", "done", "faulted"}
    /\ w3 # None
    /\ contract # None
    /\ calls' # <<>>
    /\ calls'[1] = Call("is_connected", "w3", <<>>, "True")

C15_ConnectedHookIdempotent ==
    [][ConnectedHookStep =>
          /\ w3' = w3
          /\ contract' = contract
          /\ calls' = <<Call("is_connected", "w3", <<>>, "True")>>
          /\ pc' = "handler"]_vars

\* the hook has run on a cached pair whose client answered connected
C15_Witness ==
    /\ pc = "handler"
    /\ w3 # None
    /\ contract # None
    /\ calls = <<Call("is_connected", "w3", <<>>, "True")>>

(***************************************************************************)
(* C16: on the state-changing endpoints, a request whose required fields   *)
(* are all present but one of whose integer fields does not convert to an  *)
(* integer, or whose JSON body is not an object, is answered 400, not      *)
(* 5xx, and no contract call is made.                                      *)
(***************************************************************************)
\* the body is no object, or every required field is there and an integer
\* field does not convert
Malformed ==
    \/ req.json # "object"
    \/ /\ \A f \in RequiredFields(req.endpoint) :
             IF f \in NumericFields(req.endpoint)
             THEN req.data[f] # PyNone
             ELSE Truthy(req.data[f])
       /\ \E f \in NumericFields(req.endpoint) : ~IntConvertible(req.data[f])

C16_MalformedIs400 ==
    (Handled(MutatingEndpoints) /\ resp # ConnectionResult.resp /\ Malformed)
        => /\ resp.status = 400
           /\ ~OpsIn(HandlerCalls, ChainOps \cup {"function"})

(***************************************************************************)
(* C17: once the handler of a blockchain-dependent endpoint runs, every    *)
(* failure inside it (reading the body, converting a field, normalising    *)
(* an address, building the call, estimating, submitting, waiting,         *)
(* decoding, a view call) ends in a JSON body {"error": message} with a    *)
(* 4xx or 5xx status: no run of a handler ends in an unhandled fault.      *)
(***************************************************************************)
\* the response is the JSON error envelope
Enveloped ==
    /\ resp.kind = "json"
    /\ resp.status \in {400, 500}
    /\ resp.error # "" \/ resp.detail # ""
    /\ resp.message = "" /\ resp.tx_hash = "" /\ resp.vals = <<>>

\* the response is a JSON success
Succeeded ==
    /\ resp.kind = "json"
    /\ resp.status \in {200, 201}
    /\ resp.error = "" /\ resp.detail = ""

\* a call of the handler raised (a log entry that does not decode is
\* skipped, not a failure), or the transaction reverted
CallFailed ==
    \/ \E i \in 1..Len(HandlerCalls) :
          /\ HandlerCalls[i].op # "process_log"
          /\ HandlerCalls[i].out # "ok"
    \/ receipt.status = 0

C17_WitnessNotObject ==
    /\ Handled(MutatingEndpoints)
    /\ ~NotConnected
    /\ req.json = "other"
    /\ Enveloped

(***************************************************************************)
(* C19: the sender of a state-changing transaction is the owner account    *)
(* configured in the environment, both for the gas estimate and for the    *)
(* submission, and the two steps use the same account.                     *)
(***************************************************************************)
\* the `from` accounts of the estimates and the submissions of the handler
Senders ==
    {HandlerCalls[i].args[1] :
        i \in {j \in 1..Len(HandlerCalls) :
                  HandlerCalls[j].op \in {"estimate_gas", "transact"}}}

C19_SenderIsOwner ==
    Handled(MutatingEndpoints) => Senders \subseteq {OWNER_ADDRESS}

(***************************************************************************)
(* C20: on /bond/issue the numeric fields are checked for presence, not    *)
(* truthiness: with name and issuer non-empty and the numeric fields       *)
(* present, a request with the value 0 in numeric fields passes            *)
(* validation and reaches issueBond with 0 in the positions of those       *)
(* fields.                                                                 *)
(***************************************************************************)
\* the numeric fields of the request whose value is 0
ZeroFields == {i \in 1..Len(IssueNumeric) : req.data[IssueNumeric[i]] = IntV(0)}

\* /bond/issue was handled with a usable cache, name and issuer non-empty,
\* every numeric field present and a number
IssueWellFormed ==
    /\ Handled({"/bond/issue"})
    /\ ~NotConnected
    /\ req.json = "object"
    /\ Truthy(req.data["name"])
    /\ Truthy(req.data["issuer"])
    /\ \A i \in 1..Len(IssueNumeric) :
          /\ req.data[IssueNumeric[i]] # PyNone
          /\ IntConvertible(req.data[IssueNumeric[i]])

C20_ZeroPassesValidation ==
    (IssueWellFormed /\ ZeroFields # {}) =>
        /\ resp.status # 400
        /\ HandlerCalls # <<>>
        /\ HandlerCalls[1].op = "function"
        /\ HandlerCalls[1].fn = "issueBond"
        /\ \A i \in ZeroFields : HandlerCalls[1].args[i + 2] = IntV(0)

\* all four numeric fields are 0 and the bond is issued
C20_Witness ==
    /\ IssueWellFormed
    /\ ZeroFields = 1..Len(IssueNumeric)
    /\ HandlerCalls[1] =
          Call("function", "issueBond",
               <<req.data["name"], req.data["issuer"], IntV(0), IntV(0),
                 IntV(0), IntV(0)>>, "ok")
    /\ resp.status = 201

(***************************************************************************)
(* C18: with requests served at once, a run of another request's hook      *)
(* between two statements of a handler costs at most a reconnect: a        *)
(* handler that passed its connectivity check and whose request is         *)
(* well formed and whose calls all succeed answers its success; it does    *)
(* not answer 400 "Invalid buyer address format" for a well-formed         *)
(* address, nor 500 after its transaction was submitted, because the       *)
(* cached client was replaced or set to none.                              *)
(***************************************************************************)
\* /bond/sell was handled past its connectivity check, the request passes
\* validation and no call the handler made raised or reverted
SellUnhindered ==
    /\ Handled({"/bond/sell"})
    /\ resp # ConnectionResult.resp
    /\ PassesValidation
    /\ ~CallFailed

C18_RaceHarmless ==
    SellUnhindered => (Succeeded /\ resp.status = 200)

(***************************************************************************)
(* C21: a state-changing request whose transaction is confirmed is         *)
(* answered 201 on /bond/issue and 200 on /bond/purchase, /bond/sell and   *)
(* /bond/redeem, with message and tx_hash in the body; these statuses are  *)
(* given only when the receipt has status 1.                               *)
(***************************************************************************)
SuccessStatus(endpoint) == IF endpoint = "/bond/issue" THEN 201 ELSE 200

C21_SuccessStatus ==
    Handled(MutatingEndpoints) =>
        /\ receipt.status = 1 =>
              /\ resp.status = SuccessStatus(req.endpoint)
              /\ resp.kind = "json"
              /\ resp.message = SuccessMessage(ContractFunction(req.endpoint))
              /\ resp.tx_hash = TxHashHex
              /\ resp.error = ""
        /\ resp.status \in {200, 201} =>
              /\ receipt.status = 1
              /\ resp.status = SuccessStatus(req.endpoint)

\* a confirmed issue, answered 201
C21_Witness ==
    /\ Handled({"/bond/issue"})
    /\ receipt.status = 1
    /\ resp.status = 201
    /\ resp.tx_hash # ""

\* a confirmed redemption, answered 200
C21_WitnessRedeem ==
    /\ Handled({"/bond/redeem"})
    /\ receipt.status = 1
    /\ resp.status = 200
    /\ resp.message = "Bond redeemed successfully"

(***************************************************************************)
(* C22: a view endpoint that reaches the contract makes exactly one        *)
(* read-only call, of its view function with its path parameters, and no   *)
(* view endpoint ever builds a transaction, estimates gas, submits or      *)
(* waits for a receipt; a 200 response carries the value the call          *)
(* returned (bondCount is the returned count).                             *)
(***************************************************************************)
ViewFunction(endpoint) ==
    CASE endpoint = "/bond/<id>/info"    -> "getBondInfo"
      [] endpoint = "/bond/<id>/holders" -> "getBondHolders"
      [] endpoint = "/bond/<id>/holder/<addr>/amount" -> "getBondHolderAmount"
      [] endpoint = "/bond/count"        -> "bondCount"

\* the path parameters of the request, the address in checksum form
PathArgs ==
    CASE req.endpoint = "/bond/count" -> <<>>
      [] req.endpoint = "/bond/<id>/holder/<addr>/amount" ->
            <<IntV(req.bond_id), ChecksumForm(req.holder_address)>>
      [] OTHER -> <<IntV(req.bond_id)>>

\* the read-only calls of the handler
ViewCalls == SelectSeq(HandlerCalls, LAMBDA c : c.op = "call")

\* the handler gets as far as its view call
ReachesView ==
    /\ ~NotConnected
    /\ req.endpoint = "/bond/<id>/holder/<addr>/amount" =>
          ChecksumForm(req.holder_address) # PyNone

\* the body of the response is the path parameters and what the call
\* returned; getBondInfo's seven items are taken by position from a tuple
\* and by key from a dict
BodyIsReturned ==
    IF req.endpoint = "/bond/<id>/info"
    THEN /\ Len(resp.vals) = 8
         /\ resp.vals[1] = IntV(req.bond_id)
         /\ \A i \in 1..7 :
               (i <= Len(returned.v) /\ returned.v[i] # PyNone) =>
                   resp.vals[i + 1] = returned.v[i]
    ELSE resp.vals = PathArgs \o returned.v

C22_ViewsReadOnly ==
    Handled(ViewEndpoints) =>
        /\ OpsIn(HandlerCalls, {"function", "estimate_gas", "transact",
                                "wait_for_transaction_receipt"}) = <<>>
        /\ receipt = NoReceipt
        /\ Len(ViewCalls) <= 1
        /\ ReachesView =>
              /\ Len(ViewCalls) = 1
              /\ ViewCalls[1].fn = ViewFunction(req.endpoint)
              /\ ViewCalls[1].args = PathArgs
        /\ (ReachesView /\ returned.shape \in {"int", "list", "dict"}) =>
              resp.status = 200
        /\ resp.status = 200 =>
              /\ ViewCalls # <<>>
              /\ ViewCalls[1].out = "ok"
              /\ returned # NoReturn
              /\ BodyIsReturned

\* bondCount returned 15 and the response says 15
C22_Witness ==
    /\ Handled({"/bond/count"})
    /\ returned = Ret("int", <<IntV(15)>>)
    /\ resp = OkResponse(200, "", "", <<IntV(15)>>)
    /\ ViewCalls = <<Call("call", "bondCount", <<>>, "ok")>>

\* getBondInfo returned a tuple and the response has its items
C22_WitnessInfo ==
    /\ Handled({"/bond/<id>/info"})
    /\ req.bond_id = 1
    /\ returned = Ret("tuple", InfoTuple)
    /\ resp.status = 200
    /\ resp.vals = <<IntV(1)>> \o InfoTuple

(***************************************************************************)
(* C23: GET /health is answered 200 with status "healthy" and GET          *)
(* /contract/address is answered 200 with the configured address, or "Not  *)
(* configured", in every connection state: never connected, connected,     *)
(* disconnected, after failed reconnects, with or without a contract       *)
(* address.                                                                *)
(***************************************************************************)
\* a request of this route has been answered, by its handler or by the
\* fault of the hook
Answered(route) == pc \in {"done", "faulted"} /\ req.endpoint = route

C23_StaticEndpoints ==
    /\ Answered("/health") => resp = OkResponse(200, "healthy", "", <<>>)
    /\ Answered("/contract/address") =>
          resp = OkResponse(200, "", "",
                    <<StrV(<<IF CONTRACT_ADDRESS # "" THEN CONTRACT_ADDRESS
                             ELSE "Not configured">>)>>)

(***************************************************************************)
(* C24: the bearer token is not enforced: on every route and in every      *)
(* state a request is served in, the request without a token, with a       *)
(* wrong token and with the configured token get the same responses and    *)
(* the same sequences of calls.                                            *)
(***************************************************************************)
C24_TokenNotEnforced ==
    pc = "handler" =>
        \A route \in Routes : \A r \in RouteRequests(route) :
            \A t \in Tokens :
                handler_run(Bearing(r, t)) = handler_run(Bearing(r, ""))

\* a redemption carrying a wrong token is about to be served, and can be
\* answered 200 after a submitted transaction
C24_Witness ==
    /\ pc = "handler"
    /\ ~NotConnected
    /\ \E r \in RouteRequests("/bond/redeem") :
          \E res \in handler_run(Bearing(r, "wrong")) :
              /\ res.resp.status = 200
              /\ OpsIn(res.calls, {"transact"}) = <<"transact">>

(***************************************************************************)
(* C25: only the hook writes the cached pair: every handler, whatever its  *)
(* outcome (success, 400, 500, a reverted or an unconfirmed transaction),  *)
(* leaves the cached client and the cached binding as they were when it    *)
(* started.                                                                *)
(***************************************************************************)
C25_HandlersKeepPair ==
    [][pc = "handler" => (w3' = w3 /\ contract' = contract)]_vars

\* a reverted purchase has been answered and the pair is still cached
C25_Witness ==
    /\ Handled({"/bond/purchase"})
    /\ receipt.status = 0
    /\ resp.status = 500
    /\ w3 # None
    /\ contract # None

\* a transaction whose receipt never came has been answered 500 and the
\* pair is still cached
C25_WitnessUnconfirmed ==
    /\ Handled(MutatingEndpoints)
    /\ \E i \in 1..Len(HandlerCalls) :
          /\ HandlerCalls[i].op = "wait_for_transaction_receipt"
          /\ HandlerCalls[i].out = "timeout"
    /\ resp.status = 500
    /\ w3 # None
    /\ contract # None

(***************************************************************************)
(* C26: a failed connection is not sticky: whatever the earlier requests   *)
(* left in the cache, a request that arrives with a contract address       *)
(* configured while the primary or the fallback endpoint is reachable is   *)
(* handled with a client and a binding present, so it is not answered the  *)
(* connection-unavailable 500.                                             *)
(***************************************************************************)
\* what the endpoints do when one of them at least is reachable
Reachable == {c \in ConnectOracles : c.primary = "True" \/ c.fallback = "True"}

\* a request may arrive: the hook is about to run
Arriving == pc \in {"idle", "done", "faulted"}

\* the hook, with an endpoint reachable and neither its probe nor the
\* creation of the binding raising, leaves a client and a binding
C26_NotSticky ==
    (Arriving /\ CONTRACT_ADDRESS # "") =>
        \A c \in Reachable : \A p \in {"True", "False"} :
            LET e == ensure_connection_run(p, c, "ok")
            IN  /\ ~e.raised
                /\ e.w3 # None
                /\ e.contract # None

====
